---------------------------- MODULE Spec2Model ----------------------------
(***************************************************************************)
(* State-machine model of the FileManager React component                  *)
(* (src/collabo-buddy-suddy-sync/src/components/FileManager.tsx).          *)
(*                                                                         *)
(* JavaScript strings are modelled as sequences of one-character strings,  *)
(* so that split, toLowerCase, includes, trim and concatenation do what    *)
(* the code does.  Labels that the code never takes apart (category names, *)
(* toast titles, program counters) are plain TLA+ strings.                 *)
(*                                                                         *)
(* The component runs on the single JavaScript thread: every action below  *)
(* is one run-to-completion step, from a UI event or the resumption of an  *)
(* await up to the next await or return.  The storage backend is the       *)
(* environment: a call is issued by a handler step, processed by the       *)
(* backend in a step of its own, and its response resumes the handler in a *)
(* third step.                                                             *)
(*                                                                         *)
(* Fields of FileItem that no handler reads (size, uploadedAt, uploadedBy, *)
(* url) and the state viewMode / viewingFile are left out of the records.  *)
(***************************************************************************)
EXTENDS Integers, Sequences, FiniteSets, Bags, TLC

VARIABLES
    files,            \* useState<FileItem[]>, line 40
    searchQuery,      \* line 42
    selectedFolder,   \* line 43
    showUploadArea,   \* line 44
    isUploading,      \* line 45
    uploadProgress,   \* line 46, a fraction <<numerator, denominator>>
    showFolderDialog, \* line 48
    newFolderName,    \* line 49
    folders,          \* the array of line 55, as the latest render holds it
    storage,          \* keys of the objects in bucket 'project-files'
    loadCall,         \* the loadFiles invocation of the mount effect
    uploadCall,       \* the handleFileUpload invocation, if one is running
    deleteCalls,      \* bag of the handleFileDelete invocations awaiting the backend
    opsStarted,       \* upload batches and remove calls started since the mount
    lastEvent,        \* the handler the last step entered on a UI event, or "none"
    toasts,           \* toast(...) calls made by the last step
    callbacks,        \* on... prop callbacks called by the last step
    logged,           \* console.error calls made by the last step
    uploadLog,        \* backend outcome of each file the running batch has processed
    uploadToasts,     \* toast(...) calls the running batch made in earlier steps
    uploadsInFlight,  \* upload requests issued and not yet returned, line 135
    raceStart,        \* what a race of upload and deletes began with (SpecRace)
    arg,              \* argument of a pure function under test
    ret               \* its result

vars == <<files, searchQuery, selectedFolder, showUploadArea, isUploading,
          uploadProgress, showFolderDialog, newFolderName, folders, storage,
          loadCall, uploadCall, deleteCalls, opsStarted,
          lastEvent, toasts, callbacks, logged, uploadLog, uploadToasts,
          uploadsInFlight, raceStart, arg, ret>>

-----------------------------------------------------------------------------
(* Bounds of the model *)

MaxNameLen == 4        \* length of the file names given to getFileType
MaxDigits == 5         \* base-1024 digits of a byte count (formatFileSize)
MaxFolderNameLen == 3  \* length of the names typed in the folder dialog
MaxQueryLen == 2       \* length of the search queries
MaxListing == 2        \* length of the listings given to the filter

-----------------------------------------------------------------------------
(* JavaScript string primitives *)

UpperChars == <<"A","B","C","D","E","F","G","H","I","J","K","L","M","N","O","P","Q","R","S","T","U","V","W","X","Y","Z">>
LowerChars == <<"a","b","c","d","e","f","g","h","i","j","k","l","m","n","o","p","q","r","s","t","u","v","w","x","y","z">>

ToLowerChar(c) ==
    IF \E i \in 1..Len(UpperChars) : UpperChars[i] = c
    THEN LowerChars[CHOOSE i \in 1..Len(UpperChars) : UpperChars[i] = c]
    ELSE c

\* String.prototype.toLowerCase
toLowerCase(s) == [i \in 1..Len(s) |-> ToLowerChar(s[i])]

\* String.prototype.includes: q occurs in s at some position
StrIncludes(s, q) ==
    \E i \in 0..(Len(s) - Len(q)) : SubSeq(s, i + 1, i + Len(q)) = q

\* Array.prototype.includes
ArrIncludes(a, x) == \E i \in 1..Len(a) : a[i] = x

\* String.prototype.split with a one-character separator
RECURSIVE split(_, _)
split(s, sep) ==
    IF \A i \in 1..Len(s) : s[i] # sep
    THEN <<s>>
    ELSE LET i == CHOOSE j \in 1..Len(s) :
                     s[j] = sep /\ \A h \in 1..(j - 1) : s[h] # sep
         IN  <<SubSeq(s, 1, i - 1)>> \o split(SubSeq(s, i + 1, Len(s)), sep)

\* Array.prototype.pop on a non-empty array: its last element
pop(a) == a[Len(a)]

WhiteSpace == {" "}

\* String.prototype.trim
RECURSIVE trim(_)
trim(s) ==
    IF s = <<>> THEN s
    ELSE IF s[1] \in WhiteSpace THEN trim(Tail(s))
    ELSE IF s[Len(s)] \in WhiteSpace THEN trim(SubSeq(s, 1, Len(s) - 1))
    ELSE s

-----------------------------------------------------------------------------
(* getFileType, lines 97-106 *)

DocumentExts == <<<<"p","d","f">>, <<"d","o","c">>, <<"d","o","c","x">>>>
ImageExts == <<<<"j","p","g">>, <<"j","p","e","g">>, <<"p","n","g">>, <<"g","i","f">>, <<"s","v","g">>>>
VideoExts == <<<<"m","p","4">>, <<"a","v","i">>, <<"m","o","v">>, <<"w","m","v">>>>
AudioExts == <<<<"m","p","3">>, <<"w","a","v">>, <<"f","l","a","c">>>>
ArchiveExts == <<<<"z","i","p">>, <<"r","a","r">>, <<"7","z">>>>
CodeExts == <<<<"j","s">>, <<"t","s">>, <<"j","s","x">>, <<"t","s","x">>, <<"h","t","m","l">>, <<"c","s","s">>>>

\* line 98: filename.split('.').pop()?.toLowerCase()
FileExt(filename) == toLowerCase(pop(split(filename, ".")))

getFileType(filename) ==
    LET ext == FileExt(filename)
    IN  IF ArrIncludes(DocumentExts, ext) THEN "document"
        ELSE IF ArrIncludes(ImageExts, ext) THEN "image"
        ELSE IF ArrIncludes(VideoExts, ext) THEN "video"
        ELSE IF ArrIncludes(AudioExts, ext) THEN "audio"
        ELSE IF ArrIncludes(ArchiveExts, ext) THEN "archive"
        ELSE IF ArrIncludes(CodeExts, ext) THEN "code"
        ELSE "other"

-----------------------------------------------------------------------------
(* getFolderFromPath, lines 108-111 *)

Root == <<"R","o","o","t">>

getFolderFromPath(path) ==
    LET parts == split(path, "/")
    IN  IF Len(parts) > 1 THEN parts[1] ELSE Root

-----------------------------------------------------------------------------
(* formatFileSize, lines 302-308.                                          *)
(* A byte count is held as its base-1024 digits, most significant first    *)
(* and without leading zeros (<<0>> is zero): the counts the code is asked *)
(* about exceed TLC's 32-bit integers.  For these counts the double        *)
(* arithmetic of the code is exact: bytes / 1024^i is a division by a      *)
(* power of two, and floor(log(bytes) / log(1024)) is the number of        *)
(* digits less one.                                                        *)

k == 1024

sizes == <<<<"B","y","t","e","s">>, <<"K","B">>, <<"M","B">>, <<"G","B">>>>

Undefined == <<"u","n","d","e","f","i","n","e","d">>

IsZeroBytes(bytes) == bytes = <<0>>

\* line 306: Math.floor(Math.log(bytes) / Math.log(k))
UnitIndex(bytes) == Len(bytes) - 1

\* (bytes / Math.pow(k, i)).toFixed(2), as a count of hundredths: the
\* nearest multiple of 0.01, ties upwards.  The digits below the leading
\* one are folded from the least significant upwards; the half that
\* rounds is added as 512 at the digit just below the leading one.
RECURSIVE FracCarry(_, _, _)
FracCarry(bytes, j, carry) ==
    IF j = 1 THEN carry
    ELSE LET t == 100 * bytes[j] + carry + (IF j = 2 THEN k \div 2 ELSE 0)
         IN  FracCarry(bytes, j - 1, t \div k)

toFixed2(bytes) == 100 * bytes[1] + FracCarry(bytes, Len(bytes), 0)

\* sizes[i], 'undefined' in the concatenation when i is out of range
SizeUnit(bytes) ==
    LET i == UnitIndex(bytes)
    IN  IF i + 1 \in 1..Len(sizes) THEN sizes[i + 1] ELSE Undefined

Digits == <<"0","1","2","3","4","5","6","7","8","9">>

\* Number.prototype.toString of a non-negative integer
RECURSIVE NatStr(_)
NatStr(n) ==
    IF n < 10 THEN <<Digits[n + 1]>>
    ELSE NatStr(n \div 10) \o <<Digits[(n % 10) + 1]>>

\* parseFloat(x.toFixed(2)) + '': the shortest decimal of h hundredths
NumStr(h) ==
    LET w == h \div 100
        f == h % 100
    IN  IF f = 0 THEN NatStr(w)
        ELSE IF f % 10 = 0 THEN NatStr(w) \o <<".">> \o NatStr(f \div 10)
        ELSE NatStr(w) \o <<".">> \o <<Digits[(f \div 10) + 1]>> \o NatStr(f % 10)

formatFileSize(bytes) ==
    IF IsZeroBytes(bytes) THEN <<"0"," ">> \o sizes[1]
    ELSE NumStr(toFixed2(bytes)) \o <<" ">> \o SizeUnit(bytes)

-----------------------------------------------------------------------------
(* The component's constants and the inputs of the model *)

All == <<"a","l","l">>

\* line 55: the array literal every render evaluates
SeedFolders ==
    << <<"D","o","c","u","m","e","n","t","s">>, <<"D","e","s","i","g","n">>,
       <<"I","m","a","g","e","s">>, <<"V","i","d","e","o","s">>,
       <<"C","o","d","e">>, <<"A","u","d","i","o">> >>

Design == SeedFolders[2]

NameA == <<"a",".","t","s">>

\* names of the files the user picks in the file input
FileNames == {NameA, Design}

\* the values the user picks in the folder selector
FolderChoices == {All, Design}

\* the selections of files the user makes in the file input
FileSelections == {<<>>, <<NameA>>, <<Design>>, <<NameA, Design>>}

\* upload batches and remove calls of one session of the component
MaxOps == 2

-----------------------------------------------------------------------------
(* The storage backend (supabase.storage.from('project-files')), as the    *)
(* component sees it: a set of object keys.                                *)

Slash == <<"/">>

\* the id the backend gives the object stored under a key: never a name
ObjectId(key) == <<"#">> \o key

\* what the bucket may hold when the component mounts
InitialStorages == {{}, {NameA, Design \o Slash \o NameA}}

\* names in the order list() returns them (sortBy name, ascending)
NameOrder == <<Design, NameA>>

\* list('', ...): an entry per object at the root, with the backend id, and
\* an entry per first path segment of the deeper keys, with id null (here
\* the empty string, falsy like null)
RECURSIVE ListFrom(_, _)
ListFrom(st, n) ==
    IF n > Len(NameOrder) THEN <<>>
    ELSE LET name == NameOrder[n]
             folder == IF \E key \in st : /\ Len(key) > Len(name)
                                          /\ SubSeq(key, 1, Len(name) + 1) = name \o Slash
                       THEN <<[id |-> <<>>, name |-> name]>>
                       ELSE <<>>
             object == IF name \in st
                       THEN <<[id |-> ObjectId(name), name |-> name]>>
                       ELSE <<>>
         IN  folder \o object \o ListFrom(st, n + 1)

ListLimit == 100

ListEntries(st) ==
    LET all == ListFrom(st, 1)
    IN  SubSeq(all, 1, IF Len(all) < ListLimit THEN Len(all) ELSE ListLimit)

NoResp == [kind |-> "none", data |-> <<>>]
ErrorResp == [kind |-> "error", data |-> <<>>]
ThrowResp == [kind |-> "throw", data |-> <<>>]
DataResp(d) == [kind |-> "data", data |-> d]

-----------------------------------------------------------------------------
(* Records of the component *)

FileItem(id, name, folder, path) ==
    [id |-> id, name |-> name, type |-> getFileType(name), folder |-> folder,
     tags |-> <<>>, path |-> path]

\* a toast: its title, the fixed text of its description, its variant, and
\* the file name or the count the description quotes (<<>> and 0 if none)
Toast(title, text, variant, file, count) ==
    [title |-> title, text |-> text, variant |-> variant, file |-> file,
     count |-> count]

\* what a step that calls nothing leaves in the observation variables
Quiet(event) ==
    /\ lastEvent' = event
    /\ toasts' = <<>>
    /\ callbacks' = <<>>
    /\ logged' = <<>>

Callback(name, a) == [name |-> name, arg |-> a]

NoProgress == <<0, 1>>

IdleUpload ==
    [pc |-> "idle", selectedFiles |-> <<>>, i |-> 0, selectedFolder |-> All,
     uploadedFiles |-> <<>>, resp |-> NoResp]

DeleteCall(fileId, file, resp) ==
    [fileId |-> fileId, file |-> file, resp |-> resp]

\* outside SpecRace no race is recorded
NoRace ==
    [files |-> <<>>, deleted |-> {}, selectedFiles |-> <<>>, folder |-> All]

\* state after construction (lines 40-55), the listing apart
Constructed ==
    /\ searchQuery = <<>>
    /\ selectedFolder = All
    /\ showUploadArea = FALSE
    /\ isUploading = FALSE
    /\ uploadProgress = NoProgress
    /\ showFolderDialog = FALSE
    /\ newFolderName = <<>>
    /\ folders = SeedFolders
    /\ uploadCall = IdleUpload
    /\ deleteCalls = EmptyBag
    /\ opsStarted = 0
    /\ lastEvent = "none"
    /\ toasts = <<>>
    /\ callbacks = <<>>
    /\ logged = <<>>
    /\ uploadLog = <<>>
    /\ uploadToasts = <<>>
    /\ uploadsInFlight = 0

\* state after construction and the mount effect (lines 58-60): the
\* listing request is on its way
Mounted ==
    /\ Constructed
    /\ files = <<>>
    /\ loadCall = [pc |-> "awaiting", resp |-> NoResp]

Init ==
    /\ Mounted
    /\ storage \in InitialStorages
    /\ arg = <<>>
    /\ ret = <<>>
    /\ raceStart = NoRace

-----------------------------------------------------------------------------
(* Groups of variables an action leaves alone *)

\* search box and folder dialog
dialogVars == <<searchQuery, showFolderDialog, newFolderName, folders>>

\* argument and result of the pure function under test, and the record of
\* how a race began
pureVars == <<arg, ret, raceStart>>

\* state of the upload handler
uploadVars == <<isUploading, uploadProgress, uploadCall, uploadLog,
                uploadToasts, uploadsInFlight>>

\* state of the delete handlers
deleteVars == <<deleteCalls>>

-----------------------------------------------------------------------------
(* loadFiles, lines 62-95 *)

\* the backend answers the list call
ListServe ==
    /\ loadCall.pc = "awaiting"
    /\ loadCall.resp = NoResp
    /\ \E r \in {DataResp(ListEntries(storage)), ErrorResp, ThrowResp} :
           loadCall' = [loadCall EXCEPT !.resp = r]
    /\ Quiet("none")
    /\ UNCHANGED <<files, selectedFolder, showUploadArea, storage, dialogVars,
                   uploadVars, deleteVars, pureVars, opsStarted>>

\* lines 78-89
LoadedItems(data) ==
    [n \in 1..Len(data) |->
        FileItem(IF data[n].id # <<>> THEN data[n].id ELSE data[n].name,
                 data[n].name, getFolderFromPath(data[n].name), data[n].name)]

\* LoadFilesResult with the listing emptied when the call fails
LoadFilesResultReset(r, prev) ==
    IF r.kind = "data" THEN LoadedItems(r.data) ELSE <<>>

\* lines 72-94: the listing after the call has returned r
LoadFilesResult(r, prev) ==
    IF r.kind = "data" THEN LoadedItems(r.data) ELSE prev

\* lines 73 and 93
LoadLogged(r) ==
    IF r.kind = "data" THEN <<>> ELSE <<"Error loading files:">>

LoadFilesResume ==
    /\ loadCall.pc = "awaiting"
    /\ loadCall.resp # NoResp
    /\ files' = LoadFilesResult(loadCall.resp, files)
    /\ loadCall' = [pc |-> "done", resp |-> NoResp]
    /\ lastEvent' = "none"
    /\ toasts' = <<>>
    /\ callbacks' = <<>>
    /\ logged' = LoadLogged(loadCall.resp)
    /\ UNCHANGED <<selectedFolder, showUploadArea, storage, dialogVars,
                   uploadVars, deleteVars, pureVars, opsStarted>>

-----------------------------------------------------------------------------
(* The controls around the upload: lines 361, 465 (show / cancel the upload *)
(* area) and line 491 (folder selector)                                     *)

ShowUploadArea ==
    /\ ~showUploadArea
    /\ showUploadArea' = TRUE
    /\ Quiet("none")
    /\ UNCHANGED <<files, selectedFolder, storage, loadCall, dialogVars,
                   uploadVars, deleteVars, pureVars, opsStarted>>

CancelUploadArea ==
    /\ showUploadArea
    /\ ~isUploading
    /\ showUploadArea' = FALSE
    /\ Quiet("none")
    /\ UNCHANGED <<files, selectedFolder, storage, loadCall, dialogVars,
                   uploadVars, deleteVars, pureVars, opsStarted>>

SetSelectedFolder(f) ==
    /\ f = All \/ ArrIncludes(folders, f)
    /\ f # selectedFolder
    /\ selectedFolder' = f
    /\ Quiet("none")
    /\ UNCHANGED <<files, showUploadArea, storage, loadCall, dialogVars,
                   uploadVars, deleteVars, pureVars, opsStarted>>

-----------------------------------------------------------------------------
(* handleFileUpload, lines 120-193 *)

\* line 132
DestKey(folder, name) ==
    IF folder = All THEN name ELSE folder \o Slash \o name

\* UploadEnabled without the disabled attribute of line 459
UploadEnabledAlways(uploading) == TRUE

\* line 459: the file input takes a change event unless it is disabled
UploadEnabled(uploading) == ~uploading

\* lines 120-140: the change event of the file input (rendered while the
\* upload area shows, disabled while isUploading), up to the first await
HandleFileUpload(selectedFiles) ==
    /\ showUploadArea
    /\ UploadEnabled(isUploading)
    /\ IF Len(selectedFiles) = 0
       THEN UNCHANGED <<isUploading, uploadProgress, uploadCall, opsStarted,
                        uploadsInFlight>>
       ELSE /\ opsStarted < MaxOps
            /\ opsStarted' = opsStarted + 1
            /\ uploadsInFlight' = uploadsInFlight + 1
            /\ isUploading' = TRUE
            /\ uploadProgress' = NoProgress
            /\ uploadCall' = [pc |-> "awaiting", selectedFiles |-> selectedFiles,
                              i |-> 0, selectedFolder |-> selectedFolder,
                              uploadedFiles |-> <<>>, resp |-> NoResp]
    /\ uploadLog' = <<>>
    /\ uploadToasts' = <<>>
    /\ Quiet("handleFileUpload")
    /\ UNCHANGED <<files, selectedFolder, showUploadArea, storage, loadCall,
                   dialogVars, deleteVars, pureVars>>

\* the backend answers upload(fileName, file, {upsert: false}): it stores
\* the object only under a key it does not hold yet
UploadServe ==
    /\ uploadCall.pc = "awaiting"
    /\ uploadCall.resp = NoResp
    /\ LET key == DestKey(uploadCall.selectedFolder,
                          uploadCall.selectedFiles[uploadCall.i + 1])
       IN  \/ /\ key \notin storage
              /\ storage' = storage \cup {key}
              /\ uploadCall' = [uploadCall EXCEPT !.resp = DataResp(key)]
           \/ /\ storage' = storage
              /\ \E r \in {ErrorResp, ThrowResp} :
                     uploadCall' = [uploadCall EXCEPT !.resp = r]
    /\ Quiet("none")
    /\ UNCHANGED <<files, selectedFolder, showUploadArea, loadCall,
                   isUploading, uploadProgress, uploadLog, uploadToasts,
                   uploadsInFlight, dialogVars, deleteVars, pureVars,
                   opsStarted>>

\* UploadedItem with the folder of line 160 always 'Root'
UploadedItemRoot(name, path, folder) == FileItem(path, name, Root, path)

\* lines 153-164
UploadedItem(name, path, folder) ==
    FileItem(path, name, IF folder = All THEN Root ELSE folder, path)

\* lines 142-166: uploadedFiles after file `name` got response r
UploadedAfter(uploaded, r, name, folder) ==
    IF r.kind = "data"
    THEN Append(uploaded, UploadedItem(name, r.data, folder))
    ELSE uploaded

\* lines 144-148
UploadFailedToast(name) ==
    Toast("Upload Failed", "Failed to upload", "destructive", name, 0)

\* lines 176-179
UploadSuccessToast(n) ==
    Toast("Upload Successful", "Successfully uploaded", "default", <<>>, n)

\* lines 184-188
UploadErrorToast ==
    Toast("Upload Failed", "An error occurred during upload", "destructive",
          <<>>, 0)

\* FileToasts without the failure toast of lines 144-148
FileToastsSilent(r, name) == <<>>

\* lines 142-150: toasts of the loop body for a file that got response r
FileToasts(r, name) ==
    IF r.kind = "error" THEN <<UploadFailedToast(name)>> ELSE <<>>

\* lines 143 and 183
UploadLogged(r) ==
    IF r.kind = "data" THEN <<>> ELSE <<"Upload error:">>

\* line 167, run for a stored file only; line 149 skips it
ProgressAfter(r, i, n, prev) ==
    IF r.kind = "data" THEN <<(i + 1) * 100, n>> ELSE prev

\* PrependUploaded with the two spreads of line 171 in the other order
AppendUploaded(uploaded, prev) == prev \o uploaded

\* line 171: setFiles(prev => [...uploadedFiles, ...prev])
PrependUploaded(uploaded, prev) == uploaded \o prev

\* IsUploadingAfter with lines 190-191 at the end of the try block instead
\* of in a finally block
IsUploadingAfterNoFinally(r, i, n) == r.kind = "throw" \/ i + 1 < n

\* lines 124 and 189-192: isUploading stays true while the loop goes on to
\* the next file; the finally block clears it when the loop has ended and
\* when a call has thrown
IsUploadingAfter(r, i, n) == r.kind # "throw" /\ i + 1 < n

\* lines 142-192: the handler resumes with the response for file i and runs
\* to the next await (the upload of file i + 1) or to its end
HandleFileUploadResume ==
    /\ uploadCall.pc = "awaiting"
    /\ uploadCall.resp # NoResp
    /\ LET r == uploadCall.resp
           i == uploadCall.i
           n == Len(uploadCall.selectedFiles)
           name == uploadCall.selectedFiles[i + 1]
           uploaded == UploadedAfter(uploadCall.uploadedFiles, r, name,
                                     uploadCall.selectedFolder)
       IN  IF r.kind = "throw"
           THEN \* catch, lines 182-188, and finally, lines 189-192
                /\ toasts' = <<UploadErrorToast>>
                /\ callbacks' = <<>>
                /\ uploadProgress' = NoProgress
                /\ uploadCall' = IdleUpload
                /\ uploadLog' = <<>>
                /\ uploadToasts' = <<>>
                /\ uploadsInFlight' = uploadsInFlight - 1
                /\ UNCHANGED <<files, showUploadArea>>
           ELSE IF i + 1 < n
           THEN \* next iteration, lines 130-140
                /\ toasts' = FileToasts(r, name)
                /\ callbacks' = <<>>
                /\ uploadProgress' = ProgressAfter(r, i, n, uploadProgress)
                /\ uploadCall' = [uploadCall EXCEPT !.i = i + 1,
                                                    !.uploadedFiles = uploaded,
                                                    !.resp = NoResp]
                /\ uploadLog' = Append(uploadLog, r.kind)
                /\ uploadToasts' = uploadToasts \o FileToasts(r, name)
                /\ UNCHANGED <<files, showUploadArea, uploadsInFlight>>
           ELSE \* lines 170-181 and finally, lines 189-192
                /\ files' = PrependUploaded(uploaded, files)
                /\ callbacks' = <<Callback("onFileUpload",
                                           uploadCall.selectedFiles)>>
                /\ toasts' = FileToasts(r, name)
                             \o <<UploadSuccessToast(Len(uploaded))>>
                /\ showUploadArea' = FALSE
                /\ uploadProgress' = NoProgress
                /\ uploadCall' = IdleUpload
                /\ uploadLog' = <<>>
                /\ uploadToasts' = <<>>
                /\ uploadsInFlight' = uploadsInFlight - 1
    /\ isUploading' = IsUploadingAfter(uploadCall.resp, uploadCall.i,
                                       Len(uploadCall.selectedFiles))
    /\ lastEvent' = "none"
    /\ logged' = UploadLogged(uploadCall.resp)
    /\ UNCHANGED <<selectedFolder, storage, loadCall,
                   dialogVars, deleteVars, pureVars, opsStarted>>

-----------------------------------------------------------------------------
(* handleFileDelete, lines 195-231 *)

\* FindById with a predicate that holds of every record
FindFirst(fs, fileId) == IF fs = <<>> THEN <<>> ELSE <<fs[1]>>

\* line 197: files.find(f => f.id === fileId), <<>> for undefined
RECURSIVE FindById(_, _)
FindById(fs, fileId) ==
    IF fs = <<>> THEN <<>>
    ELSE IF fs[1].id = fileId THEN <<fs[1]>>
    ELSE FindById(Tail(fs), fileId)

\* the identities a delete may be asked for
FileIds == {fn : fn \in FileNames} \cup {ObjectId(fn) : fn \in FileNames}
           \cup {DestKey(fo, fn) : fo \in FolderChoices, fn \in FileNames}

\* line 203: file.path || file.name
RemoveKey(file) == IF file.path # <<>> THEN file.path ELSE file.name

\* lines 195-203: the calls awaiting the backend after Delete was clicked
\* for fileId
DeleteIssued(calls, fs, fileId) ==
    LET found == FindById(fs, fileId)
    IN  IF found = <<>> THEN calls
        ELSE calls (+) SetToBag({DeleteCall(fileId, found[1], NoResp)})

HandleFileDelete(fileId) ==
    /\ IF FindById(files, fileId) = <<>>
       THEN UNCHANGED opsStarted
       ELSE /\ opsStarted < MaxOps
            /\ opsStarted' = opsStarted + 1
    /\ deleteCalls' = DeleteIssued(deleteCalls, files, fileId)
    /\ Quiet("handleFileDelete")
    /\ UNCHANGED <<files, selectedFolder, showUploadArea, storage, loadCall,
                   dialogVars, uploadVars, pureVars>>

\* the backend answers remove([key]); removing a key it does not hold is
\* no error
RemoveServe(c) ==
    /\ BagIn(c, deleteCalls)
    /\ c.resp = NoResp
    /\ \/ /\ storage' = storage \ {RemoveKey(c.file)}
          /\ deleteCalls' = (deleteCalls (-) SetToBag({c}))
                            (+) SetToBag({[c EXCEPT !.resp = DataResp(<<>>)]})
       \/ /\ storage' = storage
          /\ \E r \in {ErrorResp, ThrowResp} :
                 deleteCalls' = (deleteCalls (-) SetToBag({c}))
                                (+) SetToBag({[c EXCEPT !.resp = r]})
    /\ Quiet("none")
    /\ UNCHANGED <<files, selectedFolder, showUploadArea, loadCall,
                   dialogVars, uploadVars, pureVars, opsStarted>>

\* line 216: setFiles(prev => prev.filter(f => f.id !== fileId))
RECURSIVE RemoveById(_, _)
RemoveById(fs, fileId) ==
    IF fs = <<>> THEN <<>>
    ELSE IF fs[1].id # fileId THEN <<fs[1]>> \o RemoveById(Tail(fs), fileId)
    ELSE RemoveById(Tail(fs), fileId)

\* lines 207-211
DeleteFailedToast(name) ==
    Toast("Delete Failed", "Failed to delete", "destructive", name, 0)

\* lines 219-222
FileDeletedToast(name) ==
    Toast("File Deleted", "has been deleted", "default", name, 0)

\* lines 225-229
DeleteErrorToast ==
    Toast("Delete Failed", "An error occurred while deleting the file",
          "destructive", <<>>, 0)

\* DeleteResult without the early return of line 212
DeleteResultAlways(r, fileId, prev) == RemoveById(prev, fileId)

\* lines 205-216: the listing after the remove call has returned r
DeleteResult(r, fileId, prev) ==
    IF r.kind = "data" THEN RemoveById(prev, fileId) ELSE prev

\* lines 205-230
DeleteToasts(r, file) ==
    IF r.kind = "data" THEN <<FileDeletedToast(file.name)>>
    ELSE IF r.kind = "error" THEN <<DeleteFailedToast(file.name)>>
    ELSE <<DeleteErrorToast>>

\* lines 206 and 224
DeleteLogged(r) ==
    IF r.kind = "data" THEN <<>> ELSE <<"Delete error:">>

\* lines 205-230: the handler resumes with the response
HandleFileDeleteResume(c) ==
    /\ BagIn(c, deleteCalls)
    /\ c.resp # NoResp
    /\ files' = DeleteResult(c.resp, c.fileId, files)
    /\ callbacks' = IF c.resp.kind = "data"
                    THEN <<Callback("onFileDelete", c.fileId)>>
                    ELSE <<>>
    /\ toasts' = DeleteToasts(c.resp, c.file)
    /\ lastEvent' = "none"
    /\ logged' = DeleteLogged(c.resp)
    /\ deleteCalls' = deleteCalls (-) SetToBag({c})
    /\ UNCHANGED <<selectedFolder, showUploadArea, storage, loadCall,
                   dialogVars, uploadVars, pureVars, opsStarted>>

-----------------------------------------------------------------------------
(* The file operations of the component against the backend *)

Next ==
    \/ ListServe
    \/ LoadFilesResume
    \/ ShowUploadArea
    \/ CancelUploadArea
    \/ \E f \in FolderChoices : SetSelectedFolder(f)
    \/ \E b \in FileSelections : HandleFileUpload(b)
    \/ UploadServe
    \/ HandleFileUploadResume
    \/ \E id \in FileIds : HandleFileDelete(id)
    \/ \E c \in BagToSet(deleteCalls) : RemoveServe(c)
    \/ \E c \in BagToSet(deleteCalls) : HandleFileDeleteResume(c)

Spec == Init /\ [][Next]_vars

\* The upload batches alone, for the termination of a batch (the load and
\* the deletes neither read nor write the state of the upload handler):
\* the backend answers every upload call, and the event loop resumes the
\* handler that awaits an answered call
NextLive ==
    \/ ShowUploadArea
    \/ CancelUploadArea
    \/ \E f \in FolderChoices : SetSelectedFolder(f)
    \/ \E b \in FileSelections : HandleFileUpload(b)
    \/ UploadServe
    \/ HandleFileUploadResume

SpecLive ==
    Init /\ [][NextLive]_vars
    /\ WF_vars(UploadServe) /\ WF_vars(HandleFileUploadResume)

-----------------------------------------------------------------------------
(* An upload batch and deletes that await the backend together, all calls  *)
(* succeeding: the component has loaded its listing, Delete was clicked    *)
(* for some of the records and a selection of files was picked, and no     *)
(* call has been answered yet.  raceStart keeps the listing, the ids asked *)
(* to delete, the selection and the destination folder.                    *)

\* the non-empty sets of records of a listing
RecordSets(fs) == SUBSET {fs[n] : n \in 1..Len(fs)} \ {{}}

InitRace ==
    /\ storage \in InitialStorages
    /\ files = LoadedItems(ListEntries(storage))
    /\ files # <<>>
    /\ loadCall = [pc |-> "done", resp |-> NoResp]
    /\ searchQuery = <<>>
    /\ selectedFolder \in FolderChoices
    /\ showUploadArea = TRUE
    /\ showFolderDialog = FALSE
    /\ newFolderName = <<>>
    /\ folders = SeedFolders
    /\ isUploading = TRUE
    /\ uploadProgress = NoProgress
    /\ \E b \in FileSelections \ {<<>>} :
           uploadCall = [pc |-> "awaiting", selectedFiles |-> b, i |-> 0,
                         selectedFolder |-> selectedFolder,
                         uploadedFiles |-> <<>>, resp |-> NoResp]
    /\ uploadsInFlight = 1
    /\ uploadLog = <<>>
    /\ uploadToasts = <<>>
    /\ \E D \in RecordSets(files) :
           /\ deleteCalls = SetToBag({DeleteCall(f.id, f, NoResp) : f \in D})
           /\ opsStarted = 1 + Cardinality(D)
           /\ raceStart = [files |-> files,
                           deleted |-> {f.id : f \in D},
                           selectedFiles |-> uploadCall.selectedFiles,
                           folder |-> selectedFolder]
    /\ lastEvent = "handleFileUpload"
    /\ toasts = <<>>
    /\ callbacks = <<>>
    /\ logged = <<>>
    /\ arg = <<>>
    /\ ret = <<>>

\* the backend stores the uploaded file
UploadServeStored == UploadServe /\ uploadCall'.resp.kind = "data"

\* the backend removes the object
RemoveServeDone(c) ==
    /\ RemoveServe(c)
    /\ \A d \in BagToSet(deleteCalls') : d.resp.kind \in {"none", "data"}

NextRace ==
    \/ UploadServeStored
    \/ HandleFileUploadResume
    \/ \E c \in BagToSet(deleteCalls) : RemoveServeDone(c)
    \/ \E c \in BagToSet(deleteCalls) : HandleFileDeleteResume(c)

SpecRace == InitRace /\ [][NextRace]_vars

-----------------------------------------------------------------------------
(* handleFolderCreate, lines 265-293, and the folder dialog *)

\* all strings over chars of length n at most
Strings(chars, n) == UNION {[1..m -> chars] : m \in 0..n}

\* the names the user types in the dialog
FolderNameInputs ==
    Strings({" ", "x", "X"}, MaxFolderNameLen)
    \cup {Design, toLowerCase(Design), Design \o <<" ">>}

\* line 523
OpenFolderDialog ==
    /\ ~showFolderDialog
    /\ showFolderDialog' = TRUE
    /\ folders' = SeedFolders
    /\ Quiet("none")
    /\ UNCHANGED <<files, searchQuery, newFolderName, selectedFolder,
                   showUploadArea, storage, loadCall, uploadVars, deleteVars,
                   pureVars, opsStarted>>

\* lines 686 and 709
CloseFolderDialog ==
    /\ showFolderDialog
    /\ showFolderDialog' = FALSE
    /\ folders' = SeedFolders
    /\ Quiet("none")
    /\ UNCHANGED <<files, searchQuery, newFolderName, selectedFolder,
                   showUploadArea, storage, loadCall, uploadVars, deleteVars,
                   pureVars, opsStarted>>

\* line 698
SetNewFolderName(v) ==
    /\ showFolderDialog
    /\ v # newFolderName
    /\ newFolderName' = v
    /\ folders' = SeedFolders
    /\ Quiet("none")
    /\ UNCHANGED <<files, searchQuery, showFolderDialog, selectedFolder,
                   showUploadArea, storage, loadCall, uploadVars, deleteVars,
                   pureVars, opsStarted>>

\* FolderNameError without the trim of line 266
FolderNameErrorNoTrim(name, fs) ==
    IF name = <<>> THEN "Please enter a folder name"
    ELSE IF ArrIncludes(fs, name) THEN "Folder already exists"
    ELSE ""

\* lines 266-282: the text of the error the name is refused with, "" if
\* it is accepted
FolderNameError(name, fs) ==
    IF trim(name) = <<>> THEN "Please enter a folder name"
    ELSE IF ArrIncludes(fs, name) THEN "Folder already exists"
    ELSE ""

\* lines 267-271 and 276-280
FolderErrorToast(text) == Toast("Error", text, "destructive", <<>>, 0)

\* lines 286-289
FolderCreatedToast(name) ==
    Toast("Folder Created", "has been created", "default", name, 0)

\* lines 284, 291, 292 and 55: the name is pushed onto the array the
\* handler's render made; setNewFolderName('') and setShowFolderDialog(false)
\* change the state when the name was not empty or the dialog was shown,
\* and the render that follows evaluates the array literal of line 55 anew
FoldersAfterCreate(fs, name, shown) ==
    IF name # <<>> \/ shown THEN SeedFolders ELSE Append(fs, name)

HandleFolderCreate ==
    /\ showFolderDialog
    /\ lastEvent' = "handleFolderCreate"
    /\ logged' = <<>>
    /\ LET error == FolderNameError(newFolderName, folders)
       IN  IF error # ""
           THEN /\ toasts' = <<FolderErrorToast(error)>>
                /\ callbacks' = <<>>
                /\ UNCHANGED <<folders, newFolderName, showFolderDialog>>
           ELSE /\ folders' = FoldersAfterCreate(folders, newFolderName,
                                                 showFolderDialog)
                /\ callbacks' = <<Callback("onFolderCreate", newFolderName)>>
                /\ toasts' = <<FolderCreatedToast(newFolderName)>>
                /\ newFolderName' = <<>>
                /\ showFolderDialog' = FALSE
    /\ UNCHANGED <<files, searchQuery, selectedFolder, showUploadArea,
                   storage, loadCall, uploadVars, deleteVars, pureVars, opsStarted>>

InitFolders ==
    /\ Mounted
    /\ storage = {}
    /\ arg = <<>>
    /\ ret = <<>>
    /\ raceStart = NoRace

NextFolders ==
    \/ OpenFolderDialog
    \/ CloseFolderDialog
    \/ \E v \in FolderNameInputs : SetNewFolderName(v)
    \/ HandleFolderCreate

SpecFolders == InitFolders /\ [][NextFolders]_vars

-----------------------------------------------------------------------------
(* filteredFiles, lines 295-300 *)

\* MatchesSearch without the toLowerCase calls
MatchesSearchCaseSensitive(file, query) ==
    \/ StrIncludes(file.name, query)
    \/ \E t \in 1..Len(file.tags) : StrIncludes(file.tags[t], query)

\* lines 296-297
MatchesSearch(file, query) ==
    \/ StrIncludes(toLowerCase(file.name), toLowerCase(query))
    \/ \E t \in 1..Len(file.tags) :
           StrIncludes(toLowerCase(file.tags[t]), toLowerCase(query))

\* line 298
MatchesFolder(file, folder) == folder = All \/ file.folder = folder

\* Array.prototype.filter with the callback of lines 295-300
RECURSIVE FilterFiles(_, _, _)
FilterFiles(fs, query, folder) ==
    IF fs = <<>> THEN <<>>
    ELSE (IF MatchesSearch(fs[1], query) /\ MatchesFolder(fs[1], folder)
          THEN <<fs[1]>> ELSE <<>>)
         \o FilterFiles(Tail(fs), query, folder)

filteredFiles == FilterFiles(files, searchQuery, selectedFolder)

\* line 486
SetSearchQuery(q) ==
    /\ q # searchQuery
    /\ searchQuery' = q
    /\ Quiet("none")
    /\ UNCHANGED <<files, showFolderDialog, newFolderName, folders,
                   selectedFolder, showUploadArea, storage, loadCall,
                   uploadVars, deleteVars, pureVars, opsStarted>>

NameUpper == <<"A",".","T","S">>

\* records a listing may hold; the filter also reads tags, which no
\* handler of the component fills
SampleRecords ==
    { FileItem(NameA, NameA, Root, NameA),
      FileItem(DestKey(Design, NameA), NameA, Design, DestKey(Design, NameA)),
      [FileItem(Design, Design, Root, Design) EXCEPT !.tags = << <<"T","S">> >>],
      FileItem(DestKey(Design, NameUpper), NameUpper, Design,
               DestKey(Design, NameUpper)) }

SampleListings == UNION {[1..m -> SampleRecords] : m \in 0..MaxListing}

Queries == Strings({"a", "S", "."}, MaxQueryLen)

InitFilter ==
    /\ Constructed
    /\ files \in SampleListings
    /\ loadCall = [pc |-> "done", resp |-> NoResp]
    /\ storage = {}
    /\ arg = <<>>
    /\ ret = <<>>
    /\ raceStart = NoRace

NextFilter ==
    \/ \E q \in Queries : SetSearchQuery(q)
    \/ \E f \in FolderChoices : SetSelectedFolder(f)

SpecFilter == InitFilter /\ [][NextFilter]_vars

-----------------------------------------------------------------------------
(* getFileType and formatFileSize applied to an argument: ret is <<>>       *)
(* before the call and holds the result after it                           *)

componentVars ==
    <<opsStarted, files, searchQuery, selectedFolder, showUploadArea, showFolderDialog,
      newFolderName, folders, storage, loadCall, uploadVars, deleteVars,
      lastEvent, toasts, callbacks, logged>>

FileNameInputs ==
    Strings({"t", "s", "T", "."}, MaxNameLen)
    \cup { <<"r","e","p","o","r","t",".","p","d","f">>,
           <<"p","i","c",".","J","P","G">>, <<"c",".","m","p","4">>,
           <<"d",".","m","p","3">>, <<"e",".","t","a","r",".","7","z">>,
           <<"p","d","f">>, <<"n","o","t","e","s">>, Design }

CallGetFileType ==
    /\ ret = <<>>
    /\ ret' = <<getFileType(arg)>>
    /\ UNCHANGED <<arg, raceStart, componentVars>>

InitType ==
    /\ Mounted
    /\ storage = {}
    /\ arg \in FileNameInputs
    /\ ret = <<>>
    /\ raceStart = NoRace

SpecType == InitType /\ [][CallGetFileType]_vars

SampleDigits == {0, 1, 512, 1023}

\* byte counts: base-1024 digits, no leading zero
ByteCounts ==
    {b \in UNION {[1..n -> SampleDigits] : n \in 1..MaxDigits} :
        Len(b) = 1 \/ b[1] # 0}

CallFormatFileSize ==
    /\ ret = <<>>
    /\ ret' = <<formatFileSize(arg)>>
    /\ UNCHANGED <<arg, raceStart, componentVars>>

InitSize ==
    /\ Mounted
    /\ storage = {}
    /\ arg \in ByteCounts
    /\ ret = <<>>
    /\ raceStart = NoRace

SpecSize == InitSize /\ [][CallFormatFileSize]_vars

-----------------------------------------------------------------------------
(* Properties of the upload batch *)

\* how many entries of log are kind
CountKind(log, kind) == Cardinality({n \in 1..Len(log) : log[n] = kind})

\* how many toasts of ts have the title and quote the file
CountToasts(ts, title, file) ==
    Cardinality({t \in 1..Len(ts) : ts[t].title = title /\ ts[t].file = file})

\* C1: when a batch of N files ends in which M uploads were stored and the
\* other N-M returned an error, the listing has grown by exactly M records,
\* the batch has emitted exactly one success toast, which reports M (also
\* when M = 0), and exactly one failure toast naming each failed file.
C1_BatchAccounting ==
    [][ (/\ uploadCall.pc = "awaiting"
         /\ uploadCall'.pc = "idle"
         /\ uploadCall.resp.kind # "throw")
        => LET log == Append(uploadLog, uploadCall.resp.kind)
               sel == uploadCall.selectedFiles
               m == CountKind(log, "data")
               all == uploadToasts \o toasts'
           IN  /\ Len(log) = Len(sel)
               /\ CountKind(log, "error") = Len(sel) - m
               /\ Len(files') = Len(files) + m
               /\ CountToasts(all, "Upload Successful", <<>>) = 1
               /\ \A t \in 1..Len(all) :
                      all[t].title = "Upload Successful" => all[t].count = m
               /\ \A f \in 1..Len(sel) :
                      CountToasts(all, "Upload Failed", sel[f])
                          = IF log[f] = "error" THEN 1 ELSE 0
               /\ Len(all) = 1 + Len(sel) - m ]_vars

\* a batch of two files has just ended: the first was stored, the second
\* was refused
C1_Witness ==
    /\ callbacks = <<Callback("onFileUpload", <<NameA, Design>>)>>
    /\ toasts = <<UploadFailedToast(Design), UploadSuccessToast(1)>>
    /\ Len(files) >= 1
    /\ files[1].name = NameA

\* C2: no two records of the listing have the same id.
C2_UniqueIds ==
    \A m, n \in 1..Len(files) : files[m].id = files[n].id => m = n

-----------------------------------------------------------------------------
(* Properties of delete *)

IdDiffers(fileId, f) == f.id # fileId

\* C3: when the delete of a record resumes with a failed remove call, the
\* listing is unchanged and one failure toast is emitted; when it resumes
\* with a successful one, the listing loses exactly the records with that
\* id, the others keep their order, and one success toast is emitted.
C3_DeleteOutcome ==
    [][ \A c \in BagToSet(deleteCalls) :
          (c.resp # NoResp /\ deleteCalls' = deleteCalls (-) SetToBag({c}))
          => IF c.resp.kind = "data"
             THEN /\ files' = SelectSeq(files, LAMBDA f : IdDiffers(c.fileId, f))
                  /\ Len(toasts') = 1
                  /\ toasts'[1].title = "File Deleted"
                  /\ toasts'[1].variant = "default"
                  /\ toasts'[1].file = c.file.name
             ELSE /\ files' = files
                  /\ Len(toasts') = 1
                  /\ toasts'[1].title = "Delete Failed"
                  /\ toasts'[1].variant = "destructive" ]_vars

\* a record has just been deleted from a listing that keeps other records
C3_Witness ==
    /\ callbacks = <<Callback("onFileDelete", ObjectId(NameA))>>
    /\ toasts = <<FileDeletedToast(NameA)>>
    /\ files # <<>>
    /\ \A n \in 1..Len(files) : files[n].id # ObjectId(NameA)

\* C4: a delete asked for an id that no record of the listing has changes
\* nothing: the listing is as it was, no toast is emitted and no remove call
\* is issued.
C4_DeleteUnknownIsNoop ==
    [][ \A id \in FileIds :
          (HandleFileDelete(id) /\ ~ \E n \in 1..Len(files) : files[n].id = id)
          => /\ files' = files
             /\ toasts' = <<>>
             /\ callbacks' = <<>>
             /\ deleteCalls' = deleteCalls
             /\ opsStarted' = opsStarted
             /\ storage' = storage ]_vars

\* Delete has just been handled for an id the non-empty listing does not
\* hold: no remove call has been issued since the mount
C4_Witness ==
    /\ lastEvent = "handleFileDelete"
    /\ files # <<>>
    /\ opsStarted = 0

-----------------------------------------------------------------------------
(* Properties of the listing load *)

\* C5: when the list call returns an error or throws, the listing is what
\* it was before, no toast is emitted and no further list call is issued.
C5_LoadFailureKeepsListing ==
    [][ (/\ loadCall.pc = "awaiting"
         /\ loadCall.resp.kind \in {"error", "throw"}
         /\ loadCall' # loadCall)
        => /\ files' = files
           /\ toasts' = <<>>
           /\ loadCall' = [pc |-> "done", resp |-> NoResp] ]_vars

\* the load has just failed over a listing that holds an uploaded record
C5_Witness ==
    /\ logged = <<"Error loading files:">>
    /\ loadCall.pc = "done"
    /\ files # <<>>

-----------------------------------------------------------------------------
(* Properties of folder creation *)

\* the name is empty or white space only, or it is one of the folders
NameRefused(name, fs) ==
    \/ \A n \in 1..Len(name) : name[n] = " "
    \/ \E n \in 1..Len(fs) : fs[n] = name

\* C6: folder creation with a name that is empty or white space only, or
\* equal to a folder name, is rejected: the folders are unchanged, one error
\* toast is emitted, onFolderCreate is not called and no storage call is
\* issued.
C6_FolderRejected ==
    [][ (HandleFolderCreate /\ NameRefused(newFolderName, folders))
        => /\ folders' = folders
           /\ Len(toasts') = 1
           /\ toasts'[1].title = "Error"
           /\ toasts'[1].variant = "destructive"
           /\ callbacks' = <<>>
           /\ UNCHANGED <<storage, loadCall, uploadCall, deleteCalls>> ]_vars

\* the creation of "Design" has just been refused
C6_Witness ==
    /\ lastEvent = "handleFolderCreate"
    /\ newFolderName = Design
    /\ toasts = <<FolderErrorToast("Folder already exists")>>
    /\ folders = SeedFolders

\* C7: once folder creation has accepted a name, the name is one of the
\* folders.
C7_CreatedFolderListed ==
    (lastEvent = "handleFolderCreate" /\ callbacks # <<>>)
    => ArrIncludes(folders, callbacks[1].arg)

-----------------------------------------------------------------------------
(* Properties of the filtered view *)

\* q occurs in s, letter case apart
ContainsIgnoringCase(s, q) ==
    \E off \in 0..(Len(s) - Len(q)) :
        \A n \in 1..Len(q) : ToLowerChar(s[off + n]) = ToLowerChar(q[n])

\* the record is to be shown
Shown(f) ==
    /\ \/ ContainsIgnoringCase(f.name, searchQuery)
       \/ \E t \in 1..Len(f.tags) : ContainsIgnoringCase(f.tags[t], searchQuery)
    /\ selectedFolder = All \/ f.folder = selectedFolder

ShownPositions == {n \in 1..Len(files) : Shown(files[n])}

\* the n-th position shown, in listing order
NthShown(n) ==
    CHOOSE p \in ShownPositions :
        Cardinality({q \in ShownPositions : q <= p}) = n

\* C8: the filtered view is the sub-sequence, in listing order, of the
\* records whose name or some tag contains the query, letter case apart,
\* and whose folder is the selection unless the selection is "all"; the
\* empty query and the selection "all" exclude no record.
C8_FilteredView ==
    /\ Len(filteredFiles) = Cardinality(ShownPositions)
    /\ \A n \in 1..Len(filteredFiles) : filteredFiles[n] = files[NthShown(n)]
    /\ (searchQuery = <<>> /\ selectedFolder = All) => filteredFiles = files

\* a query in the other letter case and a folder selection keep one record
\* of two
C8_Witness ==
    /\ searchQuery = <<"S">>
    /\ selectedFolder = Design
    /\ Len(files) = 2
    /\ Len(filteredFiles) = 1
    /\ filteredFiles[1].name = NameA

-----------------------------------------------------------------------------
(* Properties of getFileType *)

Categories ==
    {"document", "image", "video", "audio", "archive", "code", "other"}

HasDot(name) == \E n \in 1..Len(name) : name[n] = "."

\* the extension: what follows the last '.', in lower case
Extension(name) ==
    LET dot == CHOOSE n \in 1..Len(name) :
                   name[n] = "." /\ \A h \in (n + 1)..Len(name) : name[h] # "."
    IN  toLowerCase(SubSeq(name, dot + 1, Len(name)))

CategoryOfExtension(ext) ==
    IF ArrIncludes(DocumentExts, ext) THEN "document"
    ELSE IF ArrIncludes(ImageExts, ext) THEN "image"
    ELSE IF ArrIncludes(VideoExts, ext) THEN "video"
    ELSE IF ArrIncludes(AudioExts, ext) THEN "audio"
    ELSE IF ArrIncludes(ArchiveExts, ext) THEN "archive"
    ELSE IF ArrIncludes(CodeExts, ext) THEN "code"
    ELSE "other"

\* C9: the category is one of the seven and is decided by the extension in
\* lower case alone; a name with an unknown extension, or with no '.' at
\* all, is "other".
C9_CategoryByExtension ==
    ret # <<>>
    => /\ ret[1] \in Categories
       /\ ret[1] = IF HasDot(arg) THEN CategoryOfExtension(Extension(arg))
                   ELSE "other"

-----------------------------------------------------------------------------
(* Properties of formatFileSize *)

DigitValue(c) == (CHOOSE d \in 1..Len(Digits) : Digits[d] = c) - 1

RECURSIVE StrNat(_)
StrNat(str) ==
    IF str = <<>> THEN 0
    ELSE 10 * StrNat(SubSeq(str, 1, Len(str) - 1)) + DigitValue(str[Len(str)])

\* the hundredths a decimal with two fraction digits at most stands for
Hundredths(str) ==
    LET parts == split(str, ".")
    IN  100 * StrNat(parts[1])
        + (IF Len(parts) = 1 THEN 0
           ELSE IF Len(parts[2]) = 1 THEN 10 * StrNat(parts[2])
           ELSE StrNat(parts[2]))

\* C10: the result is "0 Bytes" for 0 and otherwise a number followed by
\* one of Bytes, KB, MB, GB, the number being at least 1 and less than 1024.
C10_SizeInRange ==
    ret # <<>>
    => IF arg = <<0>>
       THEN ret[1] = <<"0", " ", "B", "y", "t", "e", "s">>
       ELSE LET parts == split(ret[1], " ")
            IN  /\ Len(parts) = 2
                /\ parts[2] \in {<<"B","y","t","e","s">>, <<"K","B">>,
                                 <<"M","B">>, <<"G","B">>}
                /\ Hundredths(parts[1]) >= 100
                /\ Hundredths(parts[1]) < 100 * 1024

-----------------------------------------------------------------------------
(* Properties of the interleaving of the operations *)

\* C11: at every moment at most one upload request is in flight: the
\* request for the next file of a batch is issued only when the one before
\* has returned, and no batch starts while a batch is in progress.
C11_OneUploadInFlight ==
    /\ uploadsInFlight <= 1
    /\ (uploadsInFlight = 1) = (uploadCall.pc = "awaiting")
    /\ uploadsInFlight = 1 => isUploading

\* the request for the second file of a batch is in flight, the file input
\* is rendered and disabled
C11_Witness ==
    /\ uploadsInFlight = 1
    /\ uploadCall.pc = "awaiting"
    /\ uploadCall.i = 1
    /\ showUploadArea
    /\ isUploading

\* the operations between their start and their update of the listing
PendingOperations ==
    (IF loadCall.pc = "awaiting" THEN 1 ELSE 0)
    + (IF uploadCall.pc = "awaiting" THEN 1 ELSE 0)
    + BagCardinality(deleteCalls)

\* C12: in no reachable state are two of the operations that change the
\* listing (the load, an upload batch, a delete) between their start and
\* their update of the listing.
C12_NoOverlap == PendingOperations <= 1

-----------------------------------------------------------------------------
(* Properties of the upload batch, continued *)

\* C13: when the upload of file i of a batch fails, by an error the call
\* returns or by a throw, the batch goes on to the upload of file i + 1 if
\* there is one, and at the end of the batch the files that were stored are
\* added to the listing.
C13_FailureDoesNotAbort ==
    [][ (HandleFileUploadResume /\ uploadCall.resp.kind # "data")
        => IF uploadCall.i + 1 < Len(uploadCall.selectedFiles)
           THEN /\ uploadCall'.pc = "awaiting"
                /\ uploadCall'.i = uploadCall.i + 1
                /\ uploadCall'.selectedFiles = uploadCall.selectedFiles
                /\ uploadCall'.uploadedFiles = uploadCall.uploadedFiles
           ELSE files' = uploadCall.uploadedFiles \o files ]_vars

\* C14: while a batch of N files runs, the progress is (files processed so
\* far / N) * 100, whether the files were stored or refused.
C14_ProgressAfterEachFile ==
    uploadCall.pc = "awaiting"
    => uploadProgress[1] * Len(uploadCall.selectedFiles)
           = uploadCall.i * 100 * uploadProgress[2]

\* the names of sel whose upload the log records as stored, in order
RECURSIVE StoredNames(_, _)
StoredNames(sel, log) ==
    IF sel = <<>> THEN <<>>
    ELSE (IF log[1] = "data" THEN <<sel[1]>> ELSE <<>>)
         \o StoredNames(Tail(sel), Tail(log))

\* C15: when a batch completes, the listing is the records of the files the
\* batch stored, in the order of the batch, followed by the listing as it
\* was right before, each record as it was and in the same order.
C15_UploadPrepends ==
    [][ (/\ HandleFileUploadResume
         /\ uploadCall'.pc = "idle"
         /\ uploadCall.resp.kind # "throw")
        => LET names == StoredNames(uploadCall.selectedFiles,
                                    Append(uploadLog, uploadCall.resp.kind))
               m == Len(names)
           IN  /\ Len(files') = m + Len(files)
               /\ \A j \in 1..m :
                      /\ files'[j].name = names[j]
                      /\ files'[j].path
                             = DestKey(uploadCall.selectedFolder, names[j])
                      /\ files'[j].id = files'[j].path
               /\ \A j \in 1..Len(files) : files'[m + j] = files[j] ]_vars

\* a batch of one file has just completed: its record stands before the
\* two records the load had listed
C15_Witness ==
    /\ callbacks = <<Callback("onFileUpload", <<Design>>)>>
    /\ toasts = <<UploadSuccessToast(1)>>
    /\ Len(files) = 3
    /\ files[1].id = Design
    /\ files[3].id = ObjectId(NameA)

-----------------------------------------------------------------------------
(* Properties of the records *)

\* position of the first "/" of key, 0 if it has none
FirstSlash(key) ==
    IF \E p \in 1..Len(key) : key[p] = "/"
    THEN CHOOSE p \in 1..Len(key) :
             key[p] = "/" /\ \A q \in 1..(p - 1) : key[q] # "/"
    ELSE 0

\* the folder a storage key stands for
FolderOfKey(key) ==
    IF FirstSlash(key) = 0 THEN Root
    ELSE SubSeq(key, 1, FirstSlash(key) - 1)

\* C16: every record of the listing, listed or uploaded, has the folder its
\* storage key stands for: the first path segment of a key with a "/",
\* "Root" for a key without.
C16_FolderFromKey ==
    \A n \in 1..Len(files) : files[n].folder = FolderOfKey(files[n].path)

\* the listing holds a record uploaded into folder Design
C16_Witness ==
    \E n \in 1..Len(files) :
        /\ files[n].path = DestKey(Design, NameA)
        /\ files[n].folder = Design

-----------------------------------------------------------------------------
(* Termination of the upload batch *)

\* C17: given that every upload call returns or throws, a batch that has
\* started finishes, whatever the outcomes of its calls: isUploading
\* becomes false and the progress is back at 0.
C17_BatchFinishes ==
    isUploading ~> (~isUploading /\ uploadProgress = NoProgress)

\* a batch has just been ended by a call that threw: the flag is cleared
\* and the progress is 0
C17_Witness ==
    /\ toasts = <<UploadErrorToast>>
    /\ logged = <<"Upload error:">>
    /\ ~isUploading
    /\ uploadProgress = NoProgress
    /\ uploadCall = IdleUpload

-----------------------------------------------------------------------------
(* Properties of the listing under interleaved operations *)

\* a record as an upload builds it: id and path are both the key the
\* backend returned (lines 154 and 162); a listed object has the backend's
\* id instead
UploadAdded(f) == f.id = f.path

\* C18: a record an upload has added to the listing stays in the listing
\* until a successful delete of that record removes it, also over the step
\* in which the list call of the mount returns.
C18_UploadedRecordStays ==
    [][ \A n \in 1..Len(files) :
          UploadAdded(files[n])
          => \/ \E m \in 1..Len(files') : files'[m] = files[n]
             \/ \E c \in BagToSet(deleteCalls) :
                    /\ HandleFileDeleteResume(c)
                    /\ c.resp.kind = "data"
                    /\ c.fileId = files[n].id ]_vars

\* a record of the listing the race began with that no delete was asked for
Survives(f) == f.id \notin raceStart.deleted

\* C19: when an upload batch and deletes of distinct records of the listing
\* await the backend together and all calls succeed, then in whatever order
\* the responses arrive the listing at the end is the records of the
\* uploaded files followed by the listing of the beginning without the
\* deleted records.
C19_OrderIndependent ==
    (raceStart # NoRace /\ uploadCall.pc = "idle" /\ deleteCalls = EmptyBag)
    => LET sel == raceStart.selectedFiles
           m == Len(sel)
           rest == SelectSeq(raceStart.files, Survives)
       IN  /\ Len(files) = m + Len(rest)
           /\ \A j \in 1..m :
                  /\ j <= Len(files)
                  /\ files[j].name = sel[j]
                  /\ files[j].id = DestKey(raceStart.folder, sel[j])
           /\ \A j \in 1..Len(rest) :
                  m + j <= Len(files) /\ files[m + j] = rest[j]

=============================================================================
